---------------------------- MODULE Spec2Model ----------------------------
(***************************************************************************)
(* A model of the team statistics aggregator: TeamStatsAggregator and the  *)
(* interactive loop main() (team_stats_aggregator.py), and                 *)
(* AdvancedTeamStatsAggregator (advanced_team_stats.py).                   *)
(*                                                                         *)
(* Python values are modelled as follows.                                  *)
(*   str            a TLA+ string; lower() and title() are computed        *)
(*                  character by character (ASCII letters).                *)
(*   Optional[x]    a sequence of length 0 (None) or 1 (<<x>>).            *)
(*   dict           a function whose DOMAIN is the set of keys.            *)
(*   list/DataFrame a sequence (of rows, each row a record or a function   *)
(*                  from column names to values).                          *)
(*   float          a scaled integer; the scale is stated at each field.   *)
(*   a table cell   a record [k, v]: k = "num" with the number v, k =      *)
(*                  "nan" for a missing value (NaN/None), k = "str" for a  *)
(*                  string that does not parse as a number.                *)
(***************************************************************************)
EXTENDS Integers, Sequences, FiniteSets, TLC

VARIABLES
    pc,                 \* position of the running call
    entry,              \* the entry point that was called
    league,             \* argument: the league as the user typed it
    team,               \* argument: the team as the user typed it
    league_code,        \* Optional: league_mappings.get(league.lower())
    league_name,        \* Optional: fbref_league_mappings.get(league.lower())
    roster_failed,      \* the roster fetch of find_team_match raised
    available_teams,    \* the roster find_team_match worked on
    correct_team_name,  \* Optional: what find_team_match returned
    season_idx,         \* the seasons the loop has gone through
    fast_has_row,       \* per season gone through: the table had a row of the team
    team_stats,         \* the list the season loop appends to
    row,                \* the fast-source row a record is being built from
    built,              \* the outcome of building a record from row
    raised,             \* the exception raised during the call (kind "" if none)
    fbref_stats,        \* Optional: what get_fbref_team_stats returned
    summary,            \* Optional: the summary display_team_stats printed
    result,             \* Optional: the report the entry point returned
    line,               \* main(): what the last input() returned
    exit_by             \* main(): the break that left the loop ("" while it runs)

vars == <<pc, entry, league, team, league_code, league_name, roster_failed,
          available_teams, correct_team_name, season_idx, fast_has_row,
          team_stats, row, built, raised, fbref_stats, summary, result,
          line, exit_by>>

None == <<>>
Some(x) == <<x>>

\* An exception: its kind (by message), the roster its message lists, and
\* whether the entry point caught it (and returned None) or let it through.
Error(kind, teams, caught) == [kind |-> kind, teams |-> teams, caught |-> caught]
NoError == Error("", <<>>, FALSE)

-----------------------------------------------------------------------------
(* str.lower(), str.title() and the substring test `a in b`.               *)

UpperLetters == "ABCDEFGHIJKLMNOPQRSTUVWXYZ"
LowerLetters == "abcdefghijklmnopqrstuvwxyz"

CharAt(s, i) == SubSeq(s, i, i)

\* The upper-case letter of each lower-case letter, and the converse.
ToLower ==
    [c \in {CharAt(UpperLetters, i) : i \in 1..Len(UpperLetters)} |->
        CharAt(LowerLetters, CHOOSE i \in 1..Len(UpperLetters) : CharAt(UpperLetters, i) = c)]
ToUpper ==
    [c \in {CharAt(LowerLetters, i) : i \in 1..Len(LowerLetters)} |->
        CharAt(UpperLetters, CHOOSE i \in 1..Len(LowerLetters) : CharAt(LowerLetters, i) = c)]

IsUpper(c) == c \in DOMAIN ToLower
IsLower(c) == c \in DOMAIN ToUpper

LowerChar(c) == IF IsUpper(c) THEN ToLower[c] ELSE c
UpperChar(c) == IF IsLower(c) THEN ToUpper[c] ELSE c

RECURSIVE lower(_)
lower(s) ==
    IF Len(s) = 0 THEN "" ELSE LowerChar(CharAt(s, 1)) \o lower(SubSeq(s, 2, Len(s)))

\* title(): a letter that follows a non-letter (or starts the string) is
\* upper-cased, every other letter is lower-cased.
RECURSIVE TitleFrom(_, _)
TitleFrom(s, prevCased) ==
    IF Len(s) = 0 THEN ""
    ELSE LET c == CharAt(s, 1)
             cased == IsUpper(c) \/ IsLower(c)
         IN  (IF prevCased THEN LowerChar(c) ELSE UpperChar(c))
                \o TitleFrom(SubSeq(s, 2, Len(s)), cased)

title(s) == TitleFrom(s, FALSE)

\* Python's `a in b` on strings: a is a contiguous part of b ("" is in every string).
StrIn(a, b) ==
    \E i \in 1..(Len(b) - Len(a) + 1) : SubSeq(b, i, i + Len(a) - 1) = a

\* str.strip(): leading and trailing whitespace removed.
Whitespace == {" ", "\t"}

RECURSIVE lstrip(_)
lstrip(s) ==
    IF Len(s) > 0 /\ CharAt(s, 1) \in Whitespace THEN lstrip(SubSeq(s, 2, Len(s))) ELSE s

RECURSIVE rstrip(_)
rstrip(s) ==
    IF Len(s) > 0 /\ CharAt(s, Len(s)) \in Whitespace
    THEN rstrip(SubSeq(s, 1, Len(s) - 1)) ELSE s

strip(s) == rstrip(lstrip(s))

\* str.startswith(prefix)
startswith(s, prefix) == Len(s) >= Len(prefix) /\ SubSeq(s, 1, Len(prefix)) = prefix

\* Python's `x in list`.
InList(x, l) == \E i \in 1..Len(l) : l[i] = x

\* dict.get(key)
DictGet(d, key) == IF key \in DOMAIN d THEN Some(d[key]) ELSE None

-----------------------------------------------------------------------------
(* The league tables.                                                      *)

\* league_mappings, the same dict in both aggregators.
league_mappings ==
    ("england" :> "ENG-Premier League") @@
    ("premier league" :> "ENG-Premier League") @@
    ("epl" :> "ENG-Premier League") @@
    ("spain" :> "ESP-La Liga") @@
    ("la liga" :> "ESP-La Liga") @@
    ("germany" :> "GER-Bundesliga") @@
    ("bundesliga" :> "GER-Bundesliga") @@
    ("italy" :> "ITA-Serie A") @@
    ("serie a" :> "ITA-Serie A") @@
    ("france" :> "FRA-Ligue 1") @@
    ("ligue 1" :> "FRA-Ligue 1")

\* The detailed-source table with "epl" filed under La Liga.
fbref_league_mappings_swapped ==
    ("england" :> "Premier League") @@
    ("premier league" :> "Premier League") @@
    ("epl" :> "La Liga") @@
    ("spain" :> "La Liga") @@
    ("la liga" :> "La Liga") @@
    ("germany" :> "Bundesliga") @@
    ("bundesliga" :> "Bundesliga") @@
    ("italy" :> "Serie A") @@
    ("serie a" :> "Serie A") @@
    ("france" :> "Ligue 1") @@
    ("ligue 1" :> "Ligue 1")

\* AdvancedTeamStatsAggregator.fbref_league_mappings
fbref_league_mappings ==
    ("england" :> "Premier League") @@
    ("premier league" :> "Premier League") @@
    ("epl" :> "Premier League") @@
    ("spain" :> "La Liga") @@
    ("la liga" :> "La Liga") @@
    ("germany" :> "Bundesliga") @@
    ("bundesliga" :> "Bundesliga") @@
    ("italy" :> "Serie A") @@
    ("serie a" :> "Serie A") @@
    ("france" :> "Ligue 1") @@
    ("ligue 1" :> "Ligue 1")

\* The season labels of the two aggregators.
seasons == <<"2024/2025", "2023/2024", "2022/2023", "2021/2022", "2020/2021">>
fbref_seasons == <<"2024-2025", "2023-2024", "2022-2023", "2021-2022", "2020-2021">>

-----------------------------------------------------------------------------
(* find_team_match, on the roster get_available_teams returned.            *)

team_variations ==
    ("man city" :> "Manchester City") @@
    ("man united" :> "Manchester United") @@
    ("man u" :> "Manchester United") @@
    ("spurs" :> "Tottenham Hotspur") @@
    ("tottenham" :> "Tottenham Hotspur") @@
    ("real" :> "Real Madrid") @@
    ("barca" :> "Barcelona") @@
    ("bayern" :> "Bayern MÃ¼nchen") @@
    ("dortmund" :> "Borussia Dortmund") @@
    ("psg" :> "Paris Saint-Germain") @@
    ("juve" :> "Juventus") @@
    ("inter" :> "Inter Milan") @@
    ("milan" :> "AC Milan")

\* The first element of the list whose position is marked in `hits`, as an
\* Optional: what a `for ... if ...: return team` loop returns.
FirstHit(l, hits) ==
    IF \E i \in 1..Len(l) : hits[i]
    THEN Some(l[CHOOSE i \in 1..Len(l) : hits[i] /\ \A j \in 1..(i - 1) : ~hits[j]])
    ELSE None

\* The equality loop returning the lower-cased query in place of the roster name.
ExactMatchAsTyped(teams, team_input_lower) ==
    IF \E i \in 1..Len(teams) : lower(teams[i]) = team_input_lower
    THEN Some(team_input_lower) ELSE None

ExactMatch(teams, team_input_lower) ==
    FirstHit(teams, [i \in 1..Len(teams) |-> lower(teams[i]) = team_input_lower])

PartialMatch(teams, team_input_lower) ==
    FirstHit(teams, [i \in 1..Len(teams) |->
                        \/ StrIn(team_input_lower, lower(teams[i]))
                        \/ StrIn(lower(teams[i]), team_input_lower)])

\* The alias table consulted without the roster test.
VariationMatchAnyRoster(teams, team_input_lower) ==
    DictGet(team_variations, team_input_lower)

\* Lines 86-89: the alias of the query, if the roster holds it.
VariationMatch(teams, team_input_lower) ==
    IF team_input_lower \in DOMAIN team_variations
          /\ InList(team_variations[team_input_lower], teams)
    THEN Some(team_variations[team_input_lower])
    ELSE None

\* find_team_match with the substring loop run before the equality loop.
FindTeamMatchPartialFirst(teams, team_input) ==
    LET team_input_lower == lower(team_input)
        exact == ExactMatch(teams, team_input_lower)
        partial == PartialMatch(teams, team_input_lower)
    IN  IF Len(teams) = 0 THEN None
        ELSE IF partial # None THEN partial
        ELSE IF exact # None THEN exact
        ELSE VariationMatch(teams, team_input_lower)

FindTeamMatch(teams, team_input) ==
    LET team_input_lower == lower(team_input)
        exact == ExactMatch(teams, team_input_lower)
        partial == PartialMatch(teams, team_input_lower)
    IN  IF Len(teams) = 0 THEN None
        ELSE IF exact # None THEN exact
        ELSE IF partial # None THEN partial
        ELSE VariationMatch(teams, team_input_lower)

-----------------------------------------------------------------------------
(* Table cells and the numeric conversions applied to them.                *)

Num(n) == [k |-> "num", v |-> n]
NaN == [k |-> "nan", v |-> 0]
Str == [k |-> "str", v |-> 0]

\* pd.to_numeric(x, errors='coerce'): what does not parse becomes NaN.
to_numeric(c) == IF c.k = "num" THEN c ELSE NaN

\* pd.notna(x): a string, parseable or not, is not NaN.
notna(c) == c.k # "nan"

\* int(x) raises ValueError on a string that is no integer literal (and on NaN).
IntRaises(c) == c.k # "num"

\* `x > 0`: a comparison with NaN is False.
Positive(c) == c.k = "num" /\ c.v > 0

\* round(n / d) to the nearest integer, ties to the even one (d > 0).  The
\* floating-point error of the quotient is not modelled.
RoundHalfEven(n, d) ==
    LET q == n \div d
        r == n % d
    IN  IF 2 * r < d THEN q
        ELSE IF 2 * r > d THEN q + 1
        ELSE IF q % 2 = 0 THEN q ELSE q + 1

\* A division: the quotient n / d scaled by `scale` and rounded, or the
\* ZeroDivisionError Python raises for d = 0.
DivByZero == [err |-> "ZeroDivisionError"]
Quotient(n, d, scale) ==
    IF d = 0 THEN DivByZero ELSE [err |-> "", val |-> RoundHalfEven(n * scale, d)]

\* `int(x) if pd.notna(x) else 0`
IntOrZero(c) == IF notna(c) THEN c.v ELSE 0

\* The guard without the test of mp.
RatioGuardNoMpTest(mp, x) == notna(x)

\* The guard of the three per-game ratios: `mp > 0 and pd.notna(x)`.
RatioGuard(mp, x) == Positive(mp) /\ notna(x)

\* `round(x / mp [* 100], places) if mp > 0 and pd.notna(x) else 0`, scaled
\* to an integer.
GuardedRatio(x, mp, scale) ==
    IF RatioGuard(mp, x) THEN Quotient(x.v, mp.v, scale) ELSE [err |-> "", val |-> 0]

\* The cells int() is applied to directly (lines 138-140, 143-144).
RawIntCells(r) == {r.W, r.D, r.L, r.GD, r.Pts}

\* The ratio scaled by 1000 instead of 100.
WinPctPerMille(wins, mp) == GuardedRatio(wins, mp, 10000)

\* Win_Percentage in tenths of a percent: round((wins / mp) * 100, 1).
WinPct(wins, mp) == GuardedRatio(wins, mp, 1000)

\* The record of one season (the dict `stats`), or the exception raised while
\* building it.  Win_Percentage is in tenths, the per-game ratios in hundredths.
BuildStats(season, lg, r) ==
    LET mp == to_numeric(r.MP)
        wins == to_numeric(r.W)
        goals_for == to_numeric(r.GF)
        goals_against == to_numeric(r.GA)
        wp == WinPct(wins, mp)
        gpg == GuardedRatio(goals_for, mp, 100)
        gapg == GuardedRatio(goals_against, mp, 100)
    IN  IF \E c \in RawIntCells(r) : notna(c) /\ IntRaises(c)
        THEN [exc |-> "ValueError"]
        ELSE IF wp.err # "" \/ gpg.err # "" \/ gapg.err # ""
        THEN [exc |-> "ZeroDivisionError"]
        ELSE [exc |-> "",
              stats |-> [Season |-> season,
                         League |-> title(lg),
                         Team |-> r.team,
                         Matches_Played |-> IntOrZero(mp),
                         Wins |-> IntOrZero(r.W),
                         Draws |-> IntOrZero(r.D),
                         Losses |-> IntOrZero(r.L),
                         Goals_For |-> IntOrZero(goals_for),
                         Goals_Against |-> IntOrZero(goals_against),
                         Goal_Difference |-> IntOrZero(r.GD),
                         Points |-> IntOrZero(r.Pts),
                         Win_Percentage |-> wp.val,
                         Goals_Per_Game |-> gpg.val,
                         Goals_Against_Per_Game |-> gapg.val]]

-----------------------------------------------------------------------------
(* The league lookups of the two aggregators.                              *)

\* self.league_mappings.get(league.lower())
LeagueCode(lg) == DictGet(league_mappings, lower(lg))

\* self.fbref_league_mappings.get(league.lower())
FbrefLeagueName(lg) == DictGet(fbref_league_mappings, lower(lg))

-----------------------------------------------------------------------------
(* get_available_teams, on the outcome of the provider call.               *)

\* The provider call returned a table whose team column is `teams`, or raised.
Fetched(teams) == [ok |-> TRUE, teams |-> teams]
FetchFailed == [ok |-> FALSE, teams |-> <<>>]

\* get_available_teams letting the failure of the fetch through.
GetAvailableTeamsReraising(outcome) ==
    IF outcome.ok THEN [exc |-> "", teams |-> outcome.teams]
    ELSE [exc |-> "SourceUnavailable", teams |-> <<>>]

\* try: return league_table['team'].tolist()   except Exception: print; return []
GetAvailableTeams(outcome) ==
    IF outcome.ok THEN [exc |-> "", teams |-> outcome.teams]
    ELSE [exc |-> "", teams |-> <<>>]

\* `not x` for an Optional[str]: None and "" are falsy.
Falsy(opt) == opt = None \/ opt = Some("")

-----------------------------------------------------------------------------
(* The season loop of get_team_league_table_stats.                         *)

\* league_table[league_table['team'] == correct_team_name]
RowsOfTeam(table, name) == SelectSeq(table, LAMBDA r : r.team = name)

\* What the loop body does with a fetched table: the record to append, if any.
SeasonRecord(season, lg, table, name) ==
    LET team_data == RowsOfTeam(table, name)
    IN  IF Len(team_data) = 0 THEN None
        ELSE LET b == BuildStats(season, lg, team_data[1])
             IN  IF b.exc = "" THEN Some(b.stats) ELSE None

\* The DataFrame without the test for an empty list.
TableResultUnchecked(stats) == [exc |-> "", df |-> stats]

\* `if not team_stats: raise ValueError("No data found ...")`, else the DataFrame.
TableResult(stats) ==
    IF Len(stats) = 0 THEN [exc |-> "NoDataFound"] ELSE [exc |-> "", df |-> stats]

-----------------------------------------------------------------------------
(* get_enhanced_team_stats: the estimated columns.  Avg_Possession and the *)
(* expected goals are in tenths, Shots_Per_Game in hundredths.             *)

Clamp(x, lo, hi) == IF x < lo THEN lo ELSE IF x > hi THEN hi ELSE x

\* min(65, max(35, 50 + GD * 0.3 + Pts * 0.1)), rounded to one decimal.
EnhancedPossession(r) == Clamp(500 + 3 * r.Goal_Difference + r.Points, 350, 650)

\* (Goals_Per_Game * 6 + noise).round(1).clip(8, 20); the noise in hundredths.
EnhancedShots(r, noise) ==
    10 * Clamp(RoundHalfEven(6 * r.Goals_Per_Game + noise, 10), 80, 200)

\* (goals * (0.9 + noise)).round(1); the noise in hundredths.
ExpectedGoals(goals, noise) == RoundHalfEven(goals * (90 + noise), 10)

\* One draw of the three noise vectors.  Every row gets the same noise here.
NoiseDraws ==
    {[shots |-> -150, xgf |-> -10, xga |-> 10],
     [shots |-> 0, xgf |-> 0, xga |-> 0],
     [shots |-> 230, xgf |-> 15, xga |-> -5]}

EnhanceRow(r, noise) ==
    [Avg_Possession |-> EnhancedPossession(r),
     Shots_Per_Game |-> EnhancedShots(r, noise.shots),
     Expected_Goals_For |-> ExpectedGoals(r.Goals_For, noise.xgf),
     Expected_Goals_Against |-> ExpectedGoals(r.Goals_Against, noise.xga)] @@ r

Enhance(basic_stats, noise) ==
    [i \in 1..Len(basic_stats) |-> EnhanceRow(basic_stats[i], noise)]

-----------------------------------------------------------------------------
(* The summary of display_team_stats (lines 222-232).  Each mean is        *)
(* formatted to the decimals of its format string.                         *)

RECURSIVE SumOf(_, _)
SumOf(df, col) == IF Len(df) = 0 THEN 0 ELSE df[1][col] + SumOf(Tail(df), col)

\* The label of the first row holding the largest (smallest) Points.
BestSeason(df) ==
    df[CHOOSE i \in 1..Len(df) :
          /\ \A j \in 1..Len(df) : df[j].Points <= df[i].Points
          /\ \A j \in 1..(i - 1) : df[j].Points < df[i].Points].Season
WorstSeason(df) ==
    df[CHOOSE i \in 1..Len(df) :
          /\ \A j \in 1..Len(df) : df[j].Points >= df[i].Points
          /\ \A j \in 1..(i - 1) : df[j].Points > df[i].Points].Season

\* idxmax() of an empty column raises ValueError.
SummaryOf(df) ==
    IF Len(df) = 0 THEN [exc |-> "ValueError"]
    ELSE [exc |-> "",
          stats |->
            [Average_Points |-> RoundHalfEven(10 * SumOf(df, "Points"), Len(df)),
             Average_Goals_Per_Game |-> RoundHalfEven(SumOf(df, "Goals_Per_Game"), Len(df)),
             Average_Goals_Against_Per_Game |->
                 RoundHalfEven(SumOf(df, "Goals_Against_Per_Game"), Len(df)),
             Average_Goal_Difference |->
                 RoundHalfEven(10 * SumOf(df, "Goal_Difference"), Len(df)),
             Average_Win_Percentage |-> RoundHalfEven(SumOf(df, "Win_Percentage"), Len(df)),
             Average_Possession |-> RoundHalfEven(SumOf(df, "Avg_Possession"), Len(df)),
             Average_Shots |-> RoundHalfEven(SumOf(df, "Shots_Per_Game"), 10 * Len(df)),
             Best_Season |-> BestSeason(df),
             Worst_Season |-> WorstSeason(df)]]

-----------------------------------------------------------------------------
(* get_fbref_team_stats.  A DataFrame built from a list of dicts is        *)
(* [columns, rows]: the columns are the union of the dicts' keys, and a    *)
(* row lacks the keys its dict lacked (NaN).  Avg_Possession is in tenths, *)
(* Shots_Per_Game in hundredths, Shots_on_Target_Per_Game in 1/10000.      *)

\* The rows of a detailed table for a league, season and team:
\* league == league_name & season == season & team.str.contains(team, case=False).
\* The team argument is matched as a plain substring (no regex characters).
DetailedRows(table, lg_name, season, tm) ==
    SelectSeq(table, LAMBDA r : /\ r.league = lg_name
                                /\ r.season = season
                                /\ StrIn(lower(tm), lower(r.team)))

\* dict.get(key, default)
GetOr(d, key, default) == IF key \in DOMAIN d THEN d[key] ELSE default

EmptyDict == <<>>

\* The dict of one season.  Dividing the shots by a Matches_Played of 0
\* raises ZeroDivisionError with Python numbers (NumPy numbers give inf); the
\* detailed rows considered here have mp > 0.  The quotients are exact for
\* those rows.
SeasonData(data, lg_name, season, tm) ==
    LET std_data == DetailedRows(data.standard, lg_name, season, tm)
        poss_data == DetailedRows(data.possession, lg_name, season, tm)
        shot_data == DetailedRows(data.shooting, lg_name, season, tm)
        std == IF Len(std_data) = 0 THEN EmptyDict
               ELSE [Season |-> season,
                     Team |-> std_data[1].team,
                     League |-> lg_name,
                     Matches_Played |-> std_data[1].mp,
                     Wins |-> std_data[1].w,
                     Draws |-> std_data[1].d,
                     Losses |-> std_data[1].l,
                     Goals_For |-> std_data[1].gf,
                     Goals_Against |-> std_data[1].ga,
                     Goal_Difference |-> std_data[1].gd,
                     Points |-> std_data[1].pts]
        poss == IF Len(poss_data) = 0 THEN EmptyDict
                ELSE [Avg_Possession |-> poss_data[1].poss]
        mp == GetOr(std, "Matches_Played", 1)
        shots == IF Len(shot_data) = 0 \/ mp = 0 THEN EmptyDict
                 ELSE [Shots_Per_Game |-> (shot_data[1].sh * 100) \div mp,
                       Shots_on_Target_Per_Game |-> (shot_data[1].sot * 10000) \div mp]
    IN  IF Len(shot_data) # 0 /\ mp = 0 THEN [exc |-> "ZeroDivisionError"]
        ELSE [exc |-> "", dict |-> std @@ poss @@ shots]

\* The three reads raised, or the three tables they returned.
FbrefTeamStats(data, lg, tm) ==
    LET lg_name == FbrefLeagueName(lg)
        per_season == [i \in 1..Len(fbref_seasons) |->
                          SeasonData(data, lg_name[1], fbref_seasons[i], tm)]
        team_data == SelectSeq([i \in 1..Len(fbref_seasons) |-> per_season[i].dict],
                               LAMBDA d : DOMAIN d # {})
    IN  IF data.fails THEN None
        ELSE IF lg_name = None THEN None
        ELSE IF \E i \in 1..Len(fbref_seasons) : per_season[i].exc # "" THEN None
        ELSE IF Len(team_data) = 0 THEN None
        ELSE Some([columns |-> UNION {DOMAIN team_data[i] : i \in 1..Len(team_data)},
                   rows |-> team_data])

-----------------------------------------------------------------------------
(* get_hybrid_team_stats: the merge on Season and the fills.               *)

MergeColumns == {"Season", "Avg_Possession", "Shots_Per_Game", "Shots_on_Target_Per_Game"}

\* A cell of a DataFrame row as an Optional: None is NaN.
Cell(d, col) == DictGet(d, col)

\* The rows a left join on Season gives for one row of basic_stats: one per
\* detailed row with the same label, or one with NaN in the detailed columns.
JoinedRows(b, fb_rows) ==
    LET same == SelectSeq(fb_rows, LAMBDA d : Cell(d, "Season") = Some(b.Season))
    IN  IF Len(same) = 0
        THEN <<[basic |-> b, poss |-> None, shots |-> None, sot |-> None]>>
        ELSE [i \in 1..Len(same) |->
                [basic |-> b,
                 poss |-> Cell(same[i], "Avg_Possession"),
                 shots |-> Cell(same[i], "Shots_Per_Game"),
                 sot |-> Cell(same[i], "Shots_on_Target_Per_Game")]]

RECURSIVE LeftJoin(_, _)
LeftJoin(basic_stats, fb_rows) ==
    IF Len(basic_stats) = 0 THEN <<>>
    ELSE JoinedRows(Head(basic_stats), fb_rows) \o LeftJoin(Tail(basic_stats), fb_rows)

\* series.fillna(estimate)
FillNa(cell, estimate) == IF cell = None THEN estimate ELSE cell[1]

\* min(65, max(35, 50 + GD * 0.3)), in tenths.
HybridPossession(r) == Clamp(500 + 3 * r.Goal_Difference, 350, 650)

\* The filled row: Shots_on_Target_Per_Game is filled from the filled
\* Shots_Per_Game (times 0.35: hundredths times 35 are 1/10000).
FillRow(j) ==
    LET shots == FillNa(j.shots, 6 * j.basic.Goals_Per_Game)
    IN  [Avg_Possession |-> FillNa(j.poss, HybridPossession(j.basic)),
         Shots_Per_Game |-> shots,
         Shots_on_Target_Per_Game |-> FillNa(j.sot, 35 * shots)] @@ j.basic

\* Selecting a missing column raises KeyError.
Merge(basic_stats, fb) ==
    IF ~(MergeColumns \subseteq fb.columns) THEN [exc |-> "KeyError"]
    ELSE LET joined == LeftJoin(basic_stats, fb.rows)
         IN  [exc |-> "", df |-> [i \in 1..Len(joined) |-> FillRow(joined[i])]]

-----------------------------------------------------------------------------
(* Bounds and input sets.                                                  *)

MaxRoster == 3      \* longest roster the provider returns
MaxNum == 3         \* largest number in a cell of a fast-source row

\* The accepted aliases in three letter cases, and inputs that are no alias.
LeagueInputs ==
    UNION {{a, title(a)} : a \in DOMAIN league_mappings}
    \cup {"ENGLAND", "PREMIER LEAGUE", "EPL", "SPAIN", "LA LIGA", "GERMANY",
          "BUNDESLIGA", "ITALY", "SERIE A", "FRANCE", "LIGUE 1",
          "eNgLaNd", "mls", "", "england ", "premier", "liga"}

\* Names a provider's roster may hold (full names and short names).
RosterNames ==
    {"Arsenal", "Tottenham Hotspur", "Spurs", "Real Madrid", "Real Madrid CF",
     "Real Sociedad", "Manchester City"}

TeamInputs ==
    {"spurs", "Spurs", "SPURS", "arsenal", "Arsenal", "real", "man city",
     "tottenham", "Real Madrid CF", "xyz", ""}

\* Rosters: lists of distinct names, at most MaxRoster long.
Rosters ==
    UNION {{r \in [1..n -> RosterNames] : \A i, j \in 1..n : r[i] = r[j] => i = j}
           : n \in 0..MaxRoster}

Cells == {Num(n) : n \in 0..MaxNum} \cup {NaN, Str}

\* Fast-source rows of one team: the four cells the ratios read take every
\* value, the others a few.
WideRows ==
    {[team |-> "Arsenal", MP |-> mp, W |-> w, D |-> d, L |-> l,
      GF |-> gf, GA |-> ga, GD |-> gd, Pts |-> pts] :
        mp \in Cells, w \in Cells \cup {Num(MaxNum + 2), Num(0 - 1)}, gf \in Cells,
        ga \in {Num(1), NaN, Str}, d \in {Num(1), Str}, l \in {Num(0), NaN},
        gd \in {Num(0 - MaxNum), Num(2)}, pts \in {Num(MaxNum), Str}}

NoRow == [team |-> "", MP |-> NaN, W |-> NaN, D |-> NaN, L |-> NaN,
          GF |-> NaN, GA |-> NaN, GD |-> NaN, Pts |-> NaN]
NotBuilt == [exc |-> "not built"]

\* Everything a specification does not start from.
Blank ==
    /\ league_code = None
    /\ league_name = None
    /\ roster_failed = FALSE
    /\ available_teams = <<>>
    /\ correct_team_name = None
    /\ season_idx = 0
    /\ fast_has_row = <<>>
    /\ team_stats = <<>>
    /\ built = NotBuilt
    /\ raised = NoError
    /\ fbref_stats = None
    /\ summary = None
    /\ result = None
    /\ line = ""
    /\ exit_by = ""

-----------------------------------------------------------------------------
(* The league catalogue applied to an input: both tables are consulted     *)
(* with the same league string (get_hybrid_team_stats passes it to both    *)
(* aggregators).                                                           *)

LookupLeague ==
    /\ pc = "league_fast"
    /\ league_code' = LeagueCode(league)
    /\ pc' = "league_detailed"
    /\ UNCHANGED <<line, exit_by, entry, league, team, league_name, roster_failed, available_teams,
                   correct_team_name, season_idx, fast_has_row, team_stats, row,
                   built, raised, fbref_stats, summary, result>>

LookupFbrefLeague ==
    /\ pc = "league_detailed"
    /\ league_name' = FbrefLeagueName(league)
    /\ pc' = "league_done"
    /\ UNCHANGED <<line, exit_by, entry, league, team, league_code, roster_failed, available_teams,
                   correct_team_name, season_idx, fast_has_row, team_stats, row,
                   built, raised, fbref_stats, summary, result>>

InitLeague ==
    /\ pc = "league_fast"
    /\ entry = "league"
    /\ league \in LeagueInputs
    /\ team = ""
    /\ row = NoRow
    /\ Blank

NextLeague == LookupLeague \/ LookupFbrefLeague

SpecLeague == InitLeague /\ [][NextLeague]_vars

-----------------------------------------------------------------------------
(* find_team_match(league, team_input) with its call of                    *)
(* get_available_teams.                                                    *)

\* get_available_teams raises for an unknown league (lines 37-39).
MatchUnknownLeague ==
    /\ pc = "match"
    /\ LeagueCode(league) = None
    /\ league_code' = None
    /\ raised' = Error("LeagueNotFound", <<>>, FALSE)
    /\ pc' = "match_done"
    /\ UNCHANGED <<line, exit_by, entry, league, team, league_name, roster_failed, available_teams,
                   correct_team_name, season_idx, fast_has_row, team_stats, row,
                   built, fbref_stats, summary, result>>

\* The roster fetch raises: get_available_teams prints and returns [] (lines
\* 45-47), and find_team_match returns None (lines 54-55).
MatchRosterFails ==
    /\ pc = "match"
    /\ LeagueCode(league) # None
    /\ league_code' = LeagueCode(league)
    /\ roster_failed' = TRUE
    /\ available_teams' = <<>>
    /\ correct_team_name' = FindTeamMatch(<<>>, team)
    /\ pc' = "match_done"
    /\ UNCHANGED <<line, exit_by, entry, league, team, league_name, season_idx, fast_has_row,
                   team_stats, row, built, raised, fbref_stats, summary, result>>

\* The roster fetch returns a table: its team column is the roster.
MatchRoster ==
    /\ pc = "match"
    /\ LeagueCode(league) # None
    /\ league_code' = LeagueCode(league)
    /\ \E r \in Rosters :
          /\ available_teams' = r
          /\ correct_team_name' = FindTeamMatch(r, team)
    /\ roster_failed' = FALSE
    /\ pc' = "match_done"
    /\ UNCHANGED <<line, exit_by, entry, league, team, league_name, season_idx, fast_has_row,
                   team_stats, row, built, raised, fbref_stats, summary, result>>

InitMatch ==
    /\ pc = "match"
    /\ entry = "find_team_match"
    /\ league \in {"england", "La Liga", "mls"}
    /\ team \in TeamInputs
    /\ row = NoRow
    /\ Blank

NextMatch == MatchUnknownLeague \/ MatchRosterFails \/ MatchRoster

SpecMatch == InitMatch /\ [][NextMatch]_vars

-----------------------------------------------------------------------------
(* The record of one season built from one fast-source row (lines 125-148  *)
(* with the except clause of lines 154-156).                               *)

BuildRecord ==
    /\ pc = "row"
    /\ built' = BuildStats(seasons[1], league, row)
    /\ pc' = "row_done"
    /\ UNCHANGED <<line, exit_by, entry, league, team, league_code, league_name, roster_failed,
                   available_teams, correct_team_name, season_idx, fast_has_row,
                   team_stats, row, raised, fbref_stats, summary, result>>

InitRow ==
    /\ pc = "row"
    /\ entry = "build_stats"
    /\ league = "england"
    /\ team = "Arsenal"
    /\ row \in WideRows
    /\ Blank

NextRow == BuildRecord

SpecRow == InitRow /\ [][NextRow]_vars

-----------------------------------------------------------------------------
(* The two entry points: display_team_stats(league, team), which reports   *)
(* get_enhanced_team_stats, and get_hybrid_team_stats(league, team).  Both *)
(* start with get_team_league_table_stats.                                 *)

PipelineLeagues == {"England", "mls"}
PipelineTeams == {"arsenal", "spurs", "tottenham", "xyz"}
EntryPoints == {"display_team_stats", "get_hybrid_team_stats"}

\* Outcomes of a roster fetch.
RosterOutcomes ==
    {FetchFailed, Fetched(<<>>), Fetched(<<"Arsenal", "Tottenham Hotspur">>),
     Fetched(<<"Spurs", "Arsenal">>)}

\* League-table rows of the fast source: a short season, a title-winning
\* season, and a row whose wins column holds a string that is no number.
FastRow(name, st) ==
    [team |-> name, MP |-> st.MP, W |-> st.W, D |-> st.D, L |-> st.L,
     GF |-> st.GF, GA |-> st.GA, GD |-> st.GD, Pts |-> st.Pts]
ShortSeason ==
    [MP |-> Num(4), W |-> Num(2), D |-> Num(1), L |-> Num(1),
     GF |-> Num(6), GA |-> Num(3), GD |-> Num(3), Pts |-> Num(7)]
TitleSeason ==
    [MP |-> Num(38), W |-> Num(28), D |-> Num(5), L |-> Num(5),
     GF |-> Num(94), GA |-> Num(33), GD |-> Num(61), Pts |-> Num(89)]
GarbledSeason ==
    [MP |-> Num(38), W |-> Str, D |-> Num(5), L |-> Num(5),
     GF |-> Num(50), GA |-> Num(50), GD |-> Num(0), Pts |-> Num(50)]

\* Tables a season's fetch may return, given the resolved team.
FastTables(name) ==
    {<<FastRow("Chelsea", ShortSeason)>>,
     <<FastRow("Chelsea", TitleSeason), FastRow(name, ShortSeason)>>,
     <<FastRow(name, TitleSeason), FastRow(name, ShortSeason)>>,
     <<FastRow(name, GarbledSeason)>>}

\* Rows of the detailed source's three tables.
StandardRow(lg, s, tm) ==
    [league |-> lg, season |-> s, team |-> tm, mp |-> 4, w |-> 2, d |-> 1, l |-> 1,
     gf |-> 6, ga |-> 3, gd |-> 3, pts |-> 7]
PossessionRow(lg, s, tm) == [league |-> lg, season |-> s, team |-> tm, poss |-> 583]
ShootingRow(lg, s, tm) == [league |-> lg, season |-> s, team |-> tm, sh |-> 48, sot |-> 16]

DetailedTables(std, poss, shot) ==
    [fails |-> FALSE, standard |-> std, possession |-> poss, shooting |-> shot]

\* Outcomes of the three reads of the detailed source: they raise; the
\* tables are empty; all three hold the team's 2024-2025 and 2022-2023
\* seasons; only the standard table holds the team; only the possession and
\* shooting tables hold it; 2023-2024 lacks possession and shooting.
DetailedOutcomes ==
    LET PL == "Premier League"
        s1 == fbref_seasons[1]
        s2 == fbref_seasons[2]
        s3 == fbref_seasons[3]
    IN  {[fails |-> TRUE, standard |-> <<>>, possession |-> <<>>, shooting |-> <<>>],
         DetailedTables(<<>>, <<>>, <<>>),
         DetailedTables(
            <<StandardRow(PL, s1, "Aston Villa"), StandardRow(PL, s1, "Arsenal"),
              StandardRow(PL, s3, "Arsenal")>>,
            <<PossessionRow(PL, s1, "Arsenal"), PossessionRow(PL, s3, "Arsenal")>>,
            <<ShootingRow(PL, s1, "Arsenal"), ShootingRow(PL, s3, "Arsenal")>>),
         DetailedTables(<<StandardRow(PL, s1, "Arsenal")>>, <<>>, <<>>),
         DetailedTables(<<>>, <<PossessionRow(PL, s2, "Arsenal")>>,
                              <<ShootingRow(PL, s2, "Arsenal")>>),
         DetailedTables(
            <<StandardRow(PL, s1, "Arsenal"), StandardRow(PL, s2, "Arsenal")>>,
            <<PossessionRow(PL, s1, "Arsenal")>>,
            <<ShootingRow(PL, s1, "Arsenal")>>)}

Init ==
    /\ pc = "start"
    /\ entry \in EntryPoints
    /\ league \in PipelineLeagues
    /\ team \in PipelineTeams
    /\ row = NoRow
    /\ Blank

\* Lines 97-99: the league is no key of league_mappings.  Both entry points
\* catch the ValueError and return None.
StatsUnknownLeague ==
    /\ pc = "start"
    /\ LeagueCode(league) = None
    /\ raised' = Error("LeagueNotFound", <<>>, TRUE)
    /\ result' = None
    /\ pc' = "done"
    /\ UNCHANGED <<line, exit_by, entry, league, team, league_code, league_name, roster_failed,
                   available_teams, correct_team_name, season_idx, fast_has_row,
                   team_stats, row, built, fbref_stats, summary>>

\* Lines 101-108: find_team_match on the outcome `first` of its roster fetch;
\* when it finds nothing, the roster is fetched again (outcome `second`) for
\* the message of the ValueError.
Resolve(first, second) ==
    LET got == GetAvailableTeams(first)
        name == IF got.exc = "" THEN FindTeamMatch(got.teams, team) ELSE None
    IN  /\ pc = "start"
        /\ LeagueCode(league) # None
        /\ league_code' = LeagueCode(league)
        /\ roster_failed' = ~first.ok
        /\ available_teams' = got.teams
        /\ correct_team_name' = name
        /\ IF got.exc # ""
           THEN /\ raised' = Error(got.exc, <<>>, TRUE)
                /\ pc' = "done"
           ELSE IF Falsy(name)
           THEN /\ raised' = Error("TeamNotFound", GetAvailableTeams(second).teams, TRUE)
                /\ pc' = "done"
           ELSE /\ raised' = raised
                /\ pc' = "loop"
        /\ result' = None
        /\ UNCHANGED <<line, exit_by, entry, league, team, league_name, season_idx, fast_has_row,
                       team_stats, row, built, fbref_stats, summary>>

ResolveRosterFails ==
    \E second \in RosterOutcomes : Resolve(FetchFailed, second)

ResolveRosterFetched ==
    \E first \in RosterOutcomes \ {FetchFailed}, second \in RosterOutcomes :
        Resolve(first, second)

\* Lines 114-118, 154-156: the fetch of the next season raises.
SeasonFetchFails ==
    /\ pc = "loop"
    /\ season_idx < Len(seasons)
    /\ season_idx' = season_idx + 1
    /\ fast_has_row' = Append(fast_has_row, FALSE)
    /\ UNCHANGED <<line, exit_by, pc, entry, league, team, league_code, league_name, roster_failed,
                   available_teams, correct_team_name, team_stats, row, built,
                   raised, fbref_stats, summary, result>>

\* Lines 114-156: the fetch of the next season returns a table.
SeasonFetched ==
    /\ pc = "loop"
    /\ season_idx < Len(seasons)
    /\ \E table \in FastTables(correct_team_name[1]) :
          LET rec == SeasonRecord(seasons[season_idx + 1], league, table,
                                  correct_team_name[1])
          IN  /\ team_stats' = IF rec = None THEN team_stats
                               ELSE Append(team_stats, rec[1])
              /\ fast_has_row' =
                    Append(fast_has_row,
                           Len(RowsOfTeam(table, correct_team_name[1])) # 0)
    /\ season_idx' = season_idx + 1
    /\ UNCHANGED <<line, exit_by, pc, entry, league, team, league_code, league_name, roster_failed,
                   available_teams, correct_team_name, row, built, raised,
                   fbref_stats, summary, result>>

\* Lines 158-159: no season gave a record.  Both entry points catch the
\* ValueError and return None.
TableNoData ==
    /\ pc = "loop"
    /\ season_idx = Len(seasons)
    /\ TableResult(team_stats).exc # ""
    /\ raised' = Error(TableResult(team_stats).exc, <<>>, TRUE)
    /\ result' = None
    /\ pc' = "done"
    /\ UNCHANGED <<line, exit_by, entry, league, team, league_code, league_name, roster_failed,
                   available_teams, correct_team_name, season_idx, fast_has_row,
                   team_stats, row, built, fbref_stats, summary>>

\* display_team_stats: the enhanced table and its summary; an exception of
\* the summary is caught and None returned.
DisplayReport ==
    /\ pc = "loop"
    /\ season_idx = Len(seasons)
    /\ entry = "display_team_stats"
    /\ TableResult(team_stats).exc = ""
    /\ \E noise \in NoiseDraws :
          \E stats_df \in {Enhance(TableResult(team_stats).df, noise)} :
          \E sm \in {SummaryOf(stats_df)} :
              IF sm.exc # ""
              THEN /\ raised' = Error(sm.exc, <<>>, TRUE)
                   /\ summary' = None
                   /\ result' = None
              ELSE /\ raised' = raised
                   /\ summary' = Some(sm.stats)
                   /\ result' = Some(stats_df)
    /\ pc' = "done"
    /\ UNCHANGED <<line, exit_by, entry, league, team, league_code, league_name, roster_failed,
                   available_teams, correct_team_name, season_idx, fast_has_row,
                   team_stats, row, built, fbref_stats>>

\* get_hybrid_team_stats, lines 146-175: the detailed statistics are merged
\* in, or basic_stats is returned as it is; the KeyError of the column
\* selection is not caught.
HybridReport ==
    /\ pc = "loop"
    /\ season_idx = Len(seasons)
    /\ entry = "get_hybrid_team_stats"
    /\ TableResult(team_stats).exc = ""
    /\ \E data \in DetailedOutcomes :
          LET basic_stats == TableResult(team_stats).df
              fb == FbrefTeamStats(data, league, team)
          IN  /\ fbref_stats' = fb
              /\ league_name' = FbrefLeagueName(league)
              /\ IF fb # None /\ Len(fb[1].rows) # 0
                 THEN LET merged == Merge(basic_stats, fb[1])
                      IN  IF merged.exc # ""
                          THEN /\ raised' = Error(merged.exc, <<>>, FALSE)
                               /\ result' = None
                          ELSE /\ raised' = raised
                               /\ result' = Some(merged.df)
                 ELSE /\ raised' = raised
                      /\ result' = Some(basic_stats)
    /\ pc' = "done"
    /\ UNCHANGED <<line, exit_by, entry, league, team, league_code, roster_failed,
                   available_teams, correct_team_name, season_idx, fast_has_row,
                   team_stats, row, built, summary>>

Next ==
    \/ StatsUnknownLeague
    \/ ResolveRosterFails
    \/ ResolveRosterFetched
    \/ SeasonFetchFails
    \/ SeasonFetched
    \/ TableNoData
    \/ DisplayReport
    \/ HybridReport

Spec == Init /\ [][Next]_vars

-----------------------------------------------------------------------------
(* main(): the interactive loop (lines 272-303).  A step runs from one     *)
(* input() or call to the next; display_team_stats runs as the steps of    *)
(* Spec above.  The locals of a call are gone when it has returned; the    *)
(* exception main() or display_team_stats last printed stays in `raised`   *)
(* until the next iteration reads a league.                                *)

\* What the user may type at the three prompts.
LeagueLines ==
    {"", "  ", " England ", "mls", "teams england", "teams  mls", "teams "}
TeamLines == {"", " ", " arsenal", "xyz"}
ContinueAnswers == {"y", "yes", " Y ", "YES", "n", "no", "", "yeah"}

\* The positions at which main() waits in input(), and those at which a
\* call it made is running.
Prompts == {"ask_league", "ask_team", "ask_continue"}
Calls == {"teams", "start", "loop", "done"}

\* The locals of the calls of one iteration.
ResetCall ==
    /\ league_code' = None
    /\ league_name' = None
    /\ roster_failed' = FALSE
    /\ available_teams' = <<>>
    /\ correct_team_name' = None
    /\ season_idx' = 0
    /\ fast_has_row' = <<>>
    /\ team_stats' = <<>>
    /\ built' = NotBuilt
    /\ fbref_stats' = None
    /\ summary' = None
    /\ result' = None

\* The loop without the `except Exception` clause: the exception leaves main().
UncaughtByMain(kind) ==
    [pc |-> "exited", exit_by |-> "error", raised |-> Error(kind, <<>>, FALSE)]

\* Lines 300-303: `except Exception` prints the error and the loop goes round.
CaughtByMain(kind) ==
    [pc |-> "ask_league", exit_by |-> "", raised |-> Error(kind, <<>>, TRUE)]

\* Lines 275-283: the league prompt.  An empty line leaves the loop, a
\* 'teams <league>' line calls show_available_teams, any other line is the
\* league of a query.
AskLeague ==
    /\ pc = "ask_league"
    /\ \E text \in LeagueLines :
          /\ line' = text
          /\ league' = strip(text)
          /\ IF strip(text) = ""
             THEN pc' = "exited" /\ exit_by' = "empty league"
             ELSE IF startswith(strip(text), "teams ")
             THEN pc' = "teams" /\ exit_by' = exit_by
             ELSE pc' = "ask_team" /\ exit_by' = exit_by
    /\ raised' = NoError
    /\ ResetCall
    /\ UNCHANGED <<entry, team, row>>

\* Lines 281-283 with show_available_teams (lines 243-254): the ValueError of
\* get_available_teams for an unknown league reaches the handler of main().
ShowTeams ==
    /\ pc = "teams"
    /\ LET league_name_arg == strip(SubSeq(league, 7, Len(league)))
       IN  IF LeagueCode(league_name_arg) = None
           THEN LET h == CaughtByMain("LeagueNotFound")
                IN  /\ pc' = h.pc
                    /\ exit_by' = h.exit_by
                    /\ raised' = h.raised
                    /\ UNCHANGED <<league_code, roster_failed, available_teams>>
           ELSE \E outcome \in RosterOutcomes :
                  LET got == GetAvailableTeams(outcome)
                      h == CaughtByMain(got.exc)
                  IN  /\ league_code' = LeagueCode(league_name_arg)
                      /\ roster_failed' = ~outcome.ok
                      /\ available_teams' = got.teams
                      /\ IF got.exc # ""
                         THEN pc' = h.pc /\ exit_by' = h.exit_by /\ raised' = h.raised
                         ELSE pc' = "ask_league" /\ UNCHANGED <<exit_by, raised>>
    /\ UNCHANGED <<line, entry, league, team, league_name, correct_team_name,
                   season_idx, fast_has_row, team_stats, row, built, fbref_stats,
                   summary, result>>

\* Lines 285-290: the team prompt.  An empty line leaves the loop, any other
\* line starts display_team_stats(league, team).
AskTeam ==
    /\ pc = "ask_team"
    /\ \E text \in TeamLines :
          /\ line' = text
          /\ team' = strip(text)
          /\ IF strip(text) = ""
             THEN pc' = "exited" /\ exit_by' = "empty team" /\ entry' = entry
             ELSE pc' = "start" /\ exit_by' = exit_by /\ entry' = "display_team_stats"
    /\ UNCHANGED <<league, league_code, league_name, roster_failed, available_teams,
                   correct_team_name, season_idx, fast_has_row, team_stats, row,
                   built, raised, fbref_stats, summary, result>>

\* Lines 290-293: display_team_stats has returned (main() does not keep its
\* value) and main() asks whether to go on.
ReturnToPrompt ==
    /\ pc = "done"
    /\ pc' = "ask_continue"
    /\ entry' = "main"
    /\ ResetCall
    /\ UNCHANGED <<line, exit_by, league, team, row, raised>>

\* Lines 293-295: the loop goes round on 'y' or 'yes' and leaves otherwise.
AskContinue ==
    /\ pc = "ask_continue"
    /\ \E text \in ContinueAnswers :
          LET continue_choice == lower(strip(text))
          IN  /\ line' = text
              /\ IF continue_choice \in {"y", "yes"}
                 THEN pc' = "ask_league" /\ exit_by' = exit_by
                 ELSE pc' = "exited" /\ exit_by' = "declined"
    /\ UNCHANGED <<entry, league, team, league_code, league_name, roster_failed,
                   available_teams, correct_team_name, season_idx, fast_has_row,
                   team_stats, row, built, raised, fbref_stats, summary, result>>

\* input() raises an Exception (EOFError at the end of the input): the
\* handler of lines 300-303 prints it and the loop starts over.
InputRaises ==
    /\ pc \in Prompts
    /\ LET h == CaughtByMain("EOFError")
       IN  pc' = h.pc /\ exit_by' = h.exit_by /\ raised' = h.raised
    /\ UNCHANGED <<line, entry, league, team, league_code, league_name,
                   roster_failed, available_teams, correct_team_name, season_idx,
                   fast_has_row, team_stats, row, built, fbref_stats, summary,
                   result>>

\* Lines 297-299: a KeyboardInterrupt, in input() or in a call (no `except
\* Exception` on the way catches it), unwinds the call and leaves the loop.
Interrupt ==
    /\ pc \in Prompts \cup Calls
    /\ pc' = "exited"
    /\ exit_by' = "interrupt"
    /\ entry' = "main"
    /\ ResetCall
    /\ UNCHANGED <<line, league, team, row, raised>>

InitShell ==
    /\ pc = "ask_league"
    /\ entry = "main"
    /\ league = ""
    /\ team = ""
    /\ row = NoRow
    /\ Blank

\* The steps the program takes on its own, without the user.
ProgramStep ==
    \/ ShowTeams
    \/ StatsUnknownLeague
    \/ ResolveRosterFails
    \/ ResolveRosterFetched
    \/ SeasonFetchFails
    \/ SeasonFetched
    \/ TableNoData
    \/ DisplayReport
    \/ ReturnToPrompt

NextShell ==
    \/ AskLeague
    \/ AskTeam
    \/ AskContinue
    \/ InputRaises
    \/ Interrupt
    \/ ProgramStep

SpecShell == InitShell /\ [][NextShell]_vars

\* A call that is running takes its next step: every provider call returns
\* or raises, and the interpreter goes on.
FairShell == SpecShell /\ WF_vars(ProgramStep)

-----------------------------------------------------------------------------
(* Properties of the league catalogue (SpecLeague).                        *)

\* The five leagues and their aliases as main() announces them (lines
\* 264-269), with the codes of the two providers.
AliasGroups ==
    {[aliases |-> {"england", "premier league", "epl"},
      fast |-> "ENG-Premier League", detailed |-> "Premier League"],
     [aliases |-> {"spain", "la liga"},
      fast |-> "ESP-La Liga", detailed |-> "La Liga"],
     [aliases |-> {"germany", "bundesliga"},
      fast |-> "GER-Bundesliga", detailed |-> "Bundesliga"],
     [aliases |-> {"italy", "serie a"},
      fast |-> "ITA-Serie A", detailed |-> "Serie A"],
     [aliases |-> {"france", "ligue 1"},
      fast |-> "FRA-Ligue 1", detailed |-> "Ligue 1"]}

\* C7: every alias of a league, in any letter case, resolves to the league's
\* pair (fast-source code, detailed-source code); the two tables accept the
\* same keys, and an input either resolves in both or in neither.
C7_AliasesResolveToOnePair ==
    pc = "league_done" =>
        /\ DOMAIN league_mappings = DOMAIN fbref_league_mappings
        /\ (league_code = None) <=> (league_name = None)
        /\ \A g \in AliasGroups :
              lower(league) \in g.aliases =>
                  league_code = Some(g.fast) /\ league_name = Some(g.detailed)

C7_Witness ==
    /\ pc = "league_done"
    /\ league = "EPL"
    /\ league_code = Some("ENG-Premier League")
    /\ league_name = Some("Premier League")

-----------------------------------------------------------------------------
(* Properties of find_team_match (SpecMatch).                              *)

\* A roster name matches the query by the exact or the partial step.
NameMatches(name, query) ==
    StrIn(lower(query), lower(name)) \/ StrIn(lower(name), lower(query))

\* C6 as stated: for every roster, "spurs" resolves to "Tottenham Hotspur"
\* when that name is in the roster and to None when it is not.
C6_SpursAnyRoster ==
    (pc = "match_done" /\ raised = NoError /\ team = "spurs") =>
        correct_team_name =
            IF InList("Tottenham Hotspur", available_teams)
            THEN Some("Tottenham Hotspur") ELSE None

\* C6 amended: the same, for every roster none of whose names equals,
\* contains or is contained in "spurs" (ignoring case).
C6_SpursWhenNoNameMatches ==
    (/\ pc = "match_done" /\ raised = NoError /\ team = "spurs"
     /\ \A i \in 1..Len(available_teams) : ~NameMatches(available_teams[i], team)) =>
        correct_team_name =
            IF InList("Tottenham Hotspur", available_teams)
            THEN Some("Tottenham Hotspur") ELSE None

C6_Witness ==
    /\ pc = "match_done"
    /\ team = "spurs"
    /\ available_teams = <<"Arsenal", "Tottenham Hotspur">>
    /\ correct_team_name = Some("Tottenham Hotspur")

\* The positions of the roster names the query equals, and of those it
\* matches as a substring in either direction, ignoring case.
EqualPositions(teams, query) ==
    {i \in 1..Len(teams) : lower(teams[i]) = lower(query)}
SubstringPositions(teams, query) ==
    {i \in 1..Len(teams) : NameMatches(teams[i], query)}

Least(S) == CHOOSE i \in S : \A j \in S : i <= j

\* C12: on a non-empty roster find_team_match returns the first roster name
\* equal to the query ignoring case; if there is none, the first roster name
\* of which the query is a substring or which is a substring of the query,
\* ignoring case; if there is none, the alias table's name for the
\* lower-cased query when the roster holds that name; otherwise None.
C12_StepsInOrder ==
    (pc = "match_done" /\ raised = NoError /\ Len(available_teams) > 0) =>
        LET eq == EqualPositions(available_teams, team)
            sub == SubstringPositions(available_teams, team)
            q == lower(team)
        IN  correct_team_name =
                IF eq # {} THEN Some(available_teams[Least(eq)])
                ELSE IF sub # {} THEN Some(available_teams[Least(sub)])
                ELSE IF q \in DOMAIN team_variations
                        /\ InList(team_variations[q], available_teams)
                     THEN Some(team_variations[q])
                ELSE None

\* The query equals the second roster name and is a substring-match of the
\* first: the equal name is returned.
C12_Witness ==
    /\ pc = "match_done"
    /\ team = "Real Madrid CF"
    /\ available_teams = <<"Real Madrid", "Real Madrid CF">>
    /\ correct_team_name = Some("Real Madrid CF")

-----------------------------------------------------------------------------
(* Properties of one season's record (SpecRow).                            *)

IsNum(c) == c.k = "num"

\* The record field built from each numeric column of the row.
FieldOf ==
    [MP |-> "Matches_Played", W |-> "Wins", D |-> "Draws", L |-> "Losses",
     GF |-> "Goals_For", GA |-> "Goals_Against", GD |-> "Goal_Difference",
     Pts |-> "Points"]

\* C4 as stated: a numeric field that fails to parse becomes 0 in the record,
\* and the record is built (the season is not aborted or skipped).
C4_UnparseableBecomesZero ==
    pc = "row_done" =>
        /\ built.exc = ""
        /\ \A col \in DOMAIN FieldOf :
              ~IsNum(row[col]) => built.stats[FieldOf[col]] = 0

\* C8: a record built from a row whose matches played is 0 or not a number
\* has win%, goals-per-game and goals-against-per-game 0, and building it
\* raises no division by zero.
C8_NoMatchesGivesZeroRatios ==
    (pc = "row_done" /\ (~IsNum(row.MP) \/ row.MP.v = 0)) =>
        /\ built.exc # "ZeroDivisionError"
        /\ built.exc = "" =>
              /\ built.stats.Win_Percentage = 0
              /\ built.stats.Goals_Per_Game = 0
              /\ built.stats.Goals_Against_Per_Game = 0

C8_Witness ==
    /\ pc = "row_done"
    /\ row.MP = Num(0)
    /\ row.W = Num(2)
    /\ row.GF = Num(3)
    /\ built.exc = ""
    /\ built.stats.Goals_Per_Game = 0

\* C9 as stated: Win_Percentage (in tenths) is between 0 and 100 for a record
\* built from any row.
C9_WinPctInRange ==
    (pc = "row_done" /\ built.exc = "") =>
        (0 <= built.stats.Win_Percentage /\ built.stats.Win_Percentage <= 1000)

\* The row's wins are a number below 0 or above its positive matches played.
WinsOutOfRange(r) ==
    /\ IsNum(r.MP) /\ r.MP.v > 0
    /\ IsNum(r.W)
    /\ (r.W.v < 0 \/ r.W.v > r.MP.v)

\* C9 amended: Win_Percentage is between 0 and 100 unless the row's wins are
\* negative or exceed its matches played.
C9_WinPctInRangeWhenWinsInRange ==
    (pc = "row_done" /\ built.exc = "" /\ ~WinsOutOfRange(row)) =>
        (0 <= built.stats.Win_Percentage /\ built.stats.Win_Percentage <= 1000)

C9_Witness ==
    /\ pc = "row_done"
    /\ built.exc = ""
    /\ row.MP = Num(3)
    /\ row.W = Num(2)
    /\ built.stats.Win_Percentage = 667

-----------------------------------------------------------------------------
(* Properties of the two entry points (Spec).                              *)

\* The labels of the seasons gone through whose table had a row of the team.
RECURSIVE LabelsWithRow(_, _)
LabelsWithRow(has_row, labels) ==
    IF Len(has_row) = 0 THEN <<>>
    ELSE (IF Head(has_row) THEN <<Head(labels)>> ELSE <<>>)
            \o LabelsWithRow(Tail(has_row), Tail(labels))

SeasonLabels(df) == [i \in 1..Len(df) |-> df[i].Season]

\* C1 as stated: the table statistics hold exactly one entry for each season
\* in which the fast source had a row of the resolved team, newest first,
\* and no other entry; a report that is returned holds the same seasons and
\* its summary is computed over them.
C1_OneEntryPerSeasonWithRow ==
    /\ (pc \in {"loop", "done"} /\ correct_team_name # None) =>
          SeasonLabels(team_stats) = LabelsWithRow(fast_has_row, seasons)
    /\ (pc = "done" /\ result # None) =>
          SeasonLabels(result[1]) = LabelsWithRow(fast_has_row, seasons)
    /\ (pc = "done" /\ summary # None) =>
          summary[1].Average_Points =
              RoundHalfEven(10 * SumOf(result[1], "Points"),
                            Len(LabelsWithRow(fast_has_row, seasons)))

\* The position of a season in the window, by either aggregator's label.
SameSeason(fast_label, detailed_label) ==
    \E i \in 1..Len(seasons) : seasons[i] = fast_label /\ fbref_seasons[i] = detailed_label

\* C2 as stated: in a hybrid report, a season with a fast row and a detailed
\* row carrying possession, shots and shots on target has the detailed
\* values in those three fields.
C2_DetailedValuesAreMerged ==
    (pc = "done" /\ entry = "get_hybrid_team_stats" /\ result # None
        /\ fbref_stats # None) =>
        \A i \in 1..Len(result[1]) : \A j \in 1..Len(fbref_stats[1].rows) :
            LET r == result[1][i]
                d == fbref_stats[1].rows[j]
            IN  (/\ {"Season", "Avg_Possession", "Shots_Per_Game",
                     "Shots_on_Target_Per_Game"} \subseteq DOMAIN d
                 /\ SameSeason(r.Season, d.Season)) =>
                    /\ "Avg_Possession" \in DOMAIN r
                    /\ r.Avg_Possession = d.Avg_Possession
                    /\ r.Shots_Per_Game = d.Shots_Per_Game
                    /\ r.Shots_on_Target_Per_Game = d.Shots_on_Target_Per_Game

AdvancedFields == {"Avg_Possession", "Shots_Per_Game", "Shots_on_Target_Per_Game"}

\* C3 as stated, for get_hybrid_team_stats: once the fast rows are there the
\* call does not raise, and every record of the report has possession, shots
\* per game and shots on target per game populated, whatever the detailed
\* source returned (nothing, an empty table, or tables lacking columns).
C3_HybridEveryFieldPopulated ==
    (/\ pc = "done" /\ entry = "get_hybrid_team_stats"
     /\ season_idx = Len(seasons) /\ Len(team_stats) > 0) =>
        /\ raised = NoError
        /\ result # None
        /\ \A i \in 1..Len(result[1]) : AdvancedFields \subseteq DOMAIN result[1][i]

C10_NoSeasonGivesNoDataFound ==
    /\ (pc = "done" /\ season_idx = Len(seasons) /\ Len(team_stats) = 0) =>
          /\ raised.kind = "NoDataFound"
          /\ result = None
          /\ summary = None
    /\ result # None => Len(result[1]) > 0
    /\ summary # None => (result # None /\ Len(result[1]) > 0)

C10_Witness ==
    /\ pc = "done"
    /\ fast_has_row = <<FALSE, FALSE, FALSE, FALSE, FALSE>>
    /\ raised = Error("NoDataFound", <<>>, TRUE)
    /\ result = None

-----------------------------------------------------------------------------
(* The resolved team name and the roster (Spec).                           *)

TeamsOf(df) == {df[i].Team : i \in 1..Len(df)}

\* C13: a name find_team_match returns is an element of the roster it
\* fetched, in the roster's spelling; with an empty roster it returns None;
\* and every season entry, in the list being built and in the report
\* returned, carries a team name of that roster.
C13_ResolvedNameIsRosterName ==
    /\ correct_team_name # None => InList(correct_team_name[1], available_teams)
    /\ Len(available_teams) = 0 => correct_team_name = None
    /\ \A name \in TeamsOf(team_stats) :
          InList(name, available_teams) /\ correct_team_name = Some(name)
    /\ result # None => \A name \in TeamsOf(result[1]) : InList(name, available_teams)

\* The alias step resolved "spurs" and the report's entries carry the
\* roster's name.
C13_Witness ==
    /\ pc = "done"
    /\ team = "spurs"
    /\ available_teams = <<"Arsenal", "Tottenham Hotspur">>
    /\ result # None
    /\ Len(result[1]) > 0
    /\ TeamsOf(result[1]) = {"Tottenham Hotspur"}

-----------------------------------------------------------------------------
(* Properties of the interactive loop (FairShell).                         *)

\* display_team_stats has failed: it caught an exception, and its report is None.
QueryFailed == pc = "done" /\ raised.kind # ""

\* A failed display_team_stats returns None to a loop that is still running.
FailedQueryYieldsNone ==
    QueryFailed => result = None /\ raised.caught /\ exit_by = ""

\* A step that leaves the loop is a break of main(): on an empty league, on
\* an empty team, on an answer other than 'y'/'yes', or on a keyboard
\* interrupt; and 'y'/'yes' leads back to the league prompt.
LeavesOnlyByBreak ==
    /\ pc' = "exited" /\ pc # "exited" =>
          \/ pc = "ask_league" /\ strip(line') = "" /\ exit_by' = "empty league"
          \/ pc = "ask_team" /\ strip(line') = "" /\ exit_by' = "empty team"
          \/ /\ pc = "ask_continue"
             /\ lower(strip(line')) \notin {"y", "yes"}
             /\ exit_by' = "declined"
          \/ exit_by' = "interrupt"
    /\ pc \in Calls /\ pc' = "exited" => exit_by' = "interrupt"
    /\ pc = "done" /\ pc' # "done" => pc' = "ask_continue" \/ exit_by' = "interrupt"
    /\ pc = "teams" /\ pc' # "teams" => pc' = "ask_league" \/ exit_by' = "interrupt"

\* C11: a query that fails (unknown league, unknown team, no data, unknown
\* league of a 'teams <league>' command, any other exception) never ends the
\* loop: display_team_stats yields None, and the loop reaches a prompt again
\* unless the user interrupts it; the loop ends only on an empty league or
\* team, on an answer other than 'y'/'yes', or on a keyboard interrupt.
C11_FailedQueryKeepsLoop ==
    /\ [](FailedQueryYieldsNone)
    /\ [](pc = "exited" <=> exit_by # "")
    /\ [][LeavesOnlyByBreak]_vars
    /\ (pc \in Calls) ~> (pc \in Prompts \/ exit_by = "interrupt")

\* After the query ('England', 'xyz') failed with "Team not found", the loop
\* stands at the continue prompt.
C11_Witness ==
    /\ pc = "ask_continue"
    /\ league = "England"
    /\ team = "xyz"
    /\ raised.kind = "TeamNotFound"
    /\ result = None
    /\ exit_by = ""

=============================================================================
